---- MODULE Spec2Model ----
(***************************************************************************)
(* Sovereign Vault: the key-derivation hierarchy (argon2.wasm.js section   *)
(* of src/app.js), the chunked file pipeline (src/crypto/crypto-core.js),  *)
(* the UI handlers that drive it (src/app.js) and the single-shot vault    *)
(* container variant (src/unnamed/part_002).                               *)
(*                                                                         *)
(* Buffers (Uint8Array) are sequences of cells.  The external primitives   *)
(* (CSPRNG, PBKDF2, Argon2id, the AEAD) are modelled symbolically: a hash  *)
(* is the injective transcript of its inputs, a random buffer is filled    *)
(* with a number never drawn before, and an AEAD ciphertext opens only     *)
(* under the key and nonce that sealed it.                                 *)
(***************************************************************************)
EXTENDS Integers, Sequences, FiniteSets, TLC

(* ------------------------------ bounds -------------------------------- *)
\* slots (regions) of one WASM heap
HeapSlots == 6
\* the number of equal steps Math.random's range [0, 1) is cut into
RandomSteps == 8
\* deriveKey calls made by the concurrent callers of SpecKdf
MaxCalls == 3
\* bytes of the longest file handed to the pipeline
MaxFileLen == 2
\* pipeline operations (handler clicks and direct calls) in one run
MaxOps == 2

(* ------------------------- program constants -------------------------- *)
SALT_LEN == 32
NONCE_LEN == 24
PBKDF2_ITERATIONS == 2000000
DEFAULT_ITERATIONS == 3
DEFAULT_PARALLELISM == 1
DEFAULT_OUTPUT_LENGTH == 32

Procs == {1, 2}
Slots == 1..HeapSlots
\* password strings as sequences of character codes; <<>> is ""
Passwords == {<<>>, <<97>>, <<98>>}

(* ------------------------------ buffers ------------------------------- *)
\* Uint8Array.fill(0) / zeroize(buffer)
zeroize(buffer) == [i \in 1..Len(buffer) |-> 0]

IsZero(buffer) == \A i \in 1..Len(buffer) : buffer[i] = 0

\* randomBytes(length) / secureRandom(length): the n-th draw of the CSPRNG
randomBytes(length, n) == [i \in 1..length |-> n]

\* the UTF-8 bytes of one code point below 2048
Utf8(c) == IF c < 128 THEN <<c>> ELSE <<192 + (c \div 64), 128 + (c % 64)>>

\* new TextEncoder().encode(str)
RECURSIVE strToBytes(_)
strToBytes(str) ==
    IF str = <<>> THEN <<>> ELSE Utf8(Head(str)) \o strToBytes(Tail(str))

(* ------------------------- external primitives ------------------------ *)
\* crypto.subtle.deriveBits PBKDF2-HMAC-SHA-512: transcript of its inputs
pbkdf2PreHash(passwordBytes, saltBytes) ==
    <<PBKDF2_ITERATIONS, Len(passwordBytes)>> \o passwordBytes \o saltBytes

\* _argon2id_hash_raw: transcript of the parameters and of the bytes read
Argon2idHashRaw(t, mKiB, par, pwd, slt, outLen) ==
    <<t, mKiB, par, outLen, Len(pwd)>> \o pwd \o slt

(* ------------------------------ WASM heap ----------------------------- *)
FreshHeap == [mem |-> [s \in Slots |-> <<>>], used |-> {}]

FreeSlots(h) == Slots \ h.used

\* _malloc: the lowest region not in use (0 when the heap is exhausted)
MallocPtr(h) ==
    IF FreeSlots(h) = {} THEN 0
    ELSE CHOOSE s \in FreeSlots(h) : \A t \in FreeSlots(h) : s <= t

Malloc(h, ptr) == [h EXCEPT !.used = @ \cup {ptr}]

HeapSet(h, bytes, ptr) == [h EXCEPT !.mem[ptr] = bytes]

HeapFill0(h, ptr) == [h EXCEPT !.mem[ptr] = zeroize(@)]

\* a freed region that reads all-zero is indistinguishable from fresh memory
HeapFree(h, ptr) ==
    [h EXCEPT !.used = @ \ {ptr},
              !.mem[ptr] = IF IsZero(@) THEN <<>> ELSE @]


(* ------------------------------- state -------------------------------- *)
VARIABLES
    rng,              \* draws made from the CSPRNG so far
    argon2Instance,   \* _argon2Instance: 0 is null, else the instance id
    instCount,        \* WebAssembly instances created so far
    heaps,            \* HEAPU8 / allocator state of each instance
    dk,               \* one deriveKey activation per caller
    derived,          \* (arguments, key) of every deriveKey call that returned
    calls,            \* deriveKey calls started by the callers of SpecKdf
    pc,               \* where the file pipeline's task stands
    enc,              \* the encryptFile activation (crypto-core.js)
    dec,              \* the decryptFile activation (crypto-core.js)
    ret,              \* what a direct caller of encryptFile received
    lastEncryptedFile,\* window.lastEncryptedFile
    lastOrigin,       \* history: the encryption lastEncryptedFile came from
    ops,              \* pipeline operations started so far
    vlt,              \* the single-shot vault container task (part_002)
    eph,              \* one withEphemeralContext activation per caller
    audit             \* the runSelfAudit task (src/app.js 57-67)

pipeVars == <<pc, enc, dec, ret, lastEncryptedFile, lastOrigin, ops>>
kdfVars == <<argon2Instance, instCount, heaps, dk>>
auxVars == <<eph, audit>>
vars == <<rng, argon2Instance, instCount, heaps, dk, derived, calls,
          pc, enc, dec, ret, lastEncryptedFile, lastOrigin, ops, vlt, eph, audit>>

(* ------------------- deriveKey (src/app.js 380-444) ------------------- *)
IdleFrame ==
    [pc |-> "idle", password |-> <<>>, salt |-> <<>>, memoryMB |-> 0,
     iterations |-> 0, parallelism |-> 0, outputLength |-> 0,
     passwordBytes |-> <<>>, hardened |-> <<>>, argon2 |-> 0,
     pwdPtr |-> 0, saltPtr |-> 0, outPtr |-> 0, key |-> <<>>, err |-> "none"]

DeriveArgs(password, salt, memoryMB) ==
    [password |-> password, salt |-> salt, memoryMB |-> memoryMB,
     iterations |-> DEFAULT_ITERATIONS, parallelism |-> DEFAULT_PARALLELISM,
     outputLength |-> DEFAULT_OUTPUT_LENGTH]

ArgsOf(f) ==
    [password |-> f.password, salt |-> f.salt, memoryMB |-> f.memoryMB,
     iterations |-> f.iterations, parallelism |-> f.parallelism,
     outputLength |-> f.outputLength]

\* lines 389-396: validation, password encoding, pbkdf2PreHash is awaited
deriveKey(args) ==
    LET f == [IdleFrame EXCEPT !.password = args.password, !.salt = args.salt,
                               !.memoryMB = args.memoryMB,
                               !.iterations = args.iterations,
                               !.parallelism = args.parallelism,
                               !.outputLength = args.outputLength]
    IN IF Len(args.password) = 0
       THEN [f EXCEPT !.pc = "thrown", !.err = "validation"]
       ELSE [f EXCEPT !.pc = "pbkdf2",
                      !.passwordBytes = strToBytes(args.password)]

\* line 326: the cached-instance test made when loadArgon2Wasm is called
loadArgon2Wasm(f, instance) ==
    IF instance # 0
    THEN [f EXCEPT !.pc = "alloc", !.argon2 = instance]
    ELSE [f EXCEPT !.pc = "fetch"]

\* variant: the slice is taken from the base of the heap, not from outPtr
DerivedKeyNoOffset(h, outPtr) == h.mem[1]

\* line 426: HEAPU8.slice(outPtr, outPtr + outputLength)
DerivedKey(h, outPtr) == h.mem[outPtr]

\* lines 402-443: the synchronous section after the WASM handle is obtained;
\* pw, sp, op are the regions _malloc returns, rc the Argon2 status
Argon2Section(f, h, pw, sp, op, rc) ==
    LET h1 == Malloc(Malloc(Malloc(h, pw), sp), op)
        h2 == HeapSet(HeapSet(h1, f.hardened, pw), f.salt, sp)
        out == Argon2idHashRaw(f.iterations, f.memoryMB * 1024, f.parallelism,
                               h2.mem[pw], h2.mem[sp], f.outputLength)
        h3 == IF rc = 0 THEN HeapSet(h2, out, op) ELSE h2
        fp == [f EXCEPT !.pwdPtr = pw, !.saltPtr = sp, !.outPtr = op]
    IN IF rc # 0
       THEN [frame |-> [fp EXCEPT !.pc = "thrown", !.err = "argon2"],
             heap |-> h3]
       ELSE LET derivedKey == DerivedKey(h3, op)
                h4 == HeapFill0(HeapFill0(HeapFill0(h3, pw), sp), op)
                h5 == HeapFree(HeapFree(HeapFree(h4, pw), sp), op)
            IN [frame |-> [fp EXCEPT !.pc = "ret", !.key = derivedKey,
                                     !.passwordBytes = zeroize(@),
                                     !.hardened = zeroize(@)],
                heap |-> h5]

\* pbkdf2PreHash resolves (line 396) and loadArgon2Wasm is called (line 399)
PbkdfResolve(p) ==
    /\ dk[p].pc = "pbkdf2"
    /\ dk' = [dk EXCEPT ![p] =
                loadArgon2Wasm(
                    [dk[p] EXCEPT !.hardened =
                        pbkdf2PreHash(dk[p].passwordBytes, dk[p].salt)],
                    argon2Instance)]
    /\ UNCHANGED <<auxVars, rng, argon2Instance, instCount, heaps, derived, calls, pipeVars, vlt>>

\* pbkdf2PreHash rejects (importKey / deriveBits failure)
PbkdfReject(p) ==
    /\ dk[p].pc = "pbkdf2"
    /\ dk' = [dk EXCEPT ![p] = [@ EXCEPT !.pc = "thrown", !.err = "pbkdf2"]]
    /\ UNCHANGED <<auxVars, rng, argon2Instance, instCount, heaps, derived, calls, pipeVars, vlt>>

\* lines 328-331: fetch resolves; ok is response.ok
FetchResolve(p) ==
    /\ dk[p].pc = "fetch"
    /\ \E ok \in BOOLEAN :
          dk' = [dk EXCEPT ![p] =
                    IF ok THEN [@ EXCEPT !.pc = "instantiate"]
                    ELSE [@ EXCEPT !.pc = "thrown", !.err = "wasm-load"]]
    /\ UNCHANGED <<auxVars, rng, argon2Instance, instCount, heaps, derived, calls, pipeVars, vlt>>

\* lines 333-344: the module is instantiated and cached
Instantiate(p) ==
    /\ dk[p].pc = "instantiate"
    /\ instCount' = instCount + 1
    /\ argon2Instance' = instCount'
    /\ dk' = [dk EXCEPT ![p] = [@ EXCEPT !.pc = "alloc", !.argon2 = instCount']]
    /\ UNCHANGED <<auxVars, rng, heaps, derived, calls, pipeVars, vlt>>

\* lines 402-443, run without suspension
Argon2Run(p) ==
    /\ dk[p].pc = "alloc"
    /\ Cardinality(FreeSlots(heaps[dk[p].argon2])) >= 3
    /\ LET h == heaps[dk[p].argon2]
           pw == MallocPtr(h)
           sp == MallocPtr(Malloc(h, pw))
           op == MallocPtr(Malloc(Malloc(h, pw), sp))
       IN
       \E rc \in {0, -1} :
          LET r == Argon2Section(dk[p], h, pw, sp, op, rc)
          IN /\ dk' = [dk EXCEPT ![p] = r.frame]
             /\ heaps' = [heaps EXCEPT ![dk[p].argon2] = r.heap]
    /\ UNCHANGED <<auxVars, rng, argon2Instance, instCount, derived, calls, pipeVars, vlt>>

DeriveStep(p) ==
    \/ PbkdfResolve(p)
    \/ PbkdfReject(p)
    \/ FetchResolve(p)
    \/ Instantiate(p)
    \/ Argon2Run(p)

(* ------------- concurrent direct callers of deriveKey ----------------- *)
Salt(n) == [i \in 1..SALT_LEN |-> n]

\* the argument records the callers choose from: one base record and one
\* that differs from it in the password, the salt, the memory cost, and
\* one with the empty password
KdfArgs ==
    {DeriveArgs(<<97>>, Salt(1), 64), DeriveArgs(<<98>>, Salt(1), 64),
     DeriveArgs(<<97>>, Salt(2), 64), DeriveArgs(<<97>>, Salt(1), 128),
     DeriveArgs(<<>>, Salt(1), 64)}

KdfCall(p) ==
    /\ dk[p].pc = "idle"
    /\ calls < MaxCalls
    /\ \E args \in KdfArgs : dk' = [dk EXCEPT ![p] = deriveKey(args)]
    /\ calls' = calls + 1
    /\ UNCHANGED <<auxVars, rng, argon2Instance, instCount, heaps, derived, pipeVars, vlt>>

\* the caller receives { key, salt }
KdfReturn(p) ==
    /\ dk[p].pc = "ret"
    /\ derived' = derived \cup {[args |-> ArgsOf(dk[p]), key |-> dk[p].key]}
    /\ dk' = [dk EXCEPT ![p] = IdleFrame]
    /\ UNCHANGED <<auxVars, rng, argon2Instance, instCount, heaps, calls, pipeVars, vlt>>

\* the caller receives the error
KdfCatch(p) ==
    /\ dk[p].pc = "thrown"
    /\ dk' = [dk EXCEPT ![p] = IdleFrame]
    /\ UNCHANGED <<auxVars, rng, argon2Instance, instCount, heaps, derived, calls, pipeVars, vlt>>

InitKdf ==
    /\ rng = 0
    /\ argon2Instance = 0
    /\ instCount = 0
    /\ heaps = [i \in Procs |-> FreshHeap]
    /\ dk = [p \in Procs |-> IdleFrame]
    /\ derived = {}
    /\ calls = 0
    /\ pc = "idle"
    /\ enc = [caller |-> "none"]
    /\ dec = [caller |-> "none"]
    /\ ret = [set |-> FALSE]
    /\ lastEncryptedFile = [set |-> FALSE]
    /\ lastOrigin = <<>>
    /\ ops = 0
    /\ vlt = [pc |-> "idle"]
    /\ eph = <<>>
    /\ audit = [pc |-> "idle"]

NextKdf ==
    \E p \in Procs :
        \/ KdfCall(p)
        \/ DeriveStep(p)
        \/ KdfReturn(p)
        \/ KdfCatch(p)

SpecKdf == InitKdf /\ [][NextKdf]_vars


(* ------------- the AEAD primitive (crypto.subtle, external) ----------- *)
\* ciphertext || tag: the tag is the transcript of key, nonce and plaintext
Seal(key, nonce, pt) ==
    pt \o key \o nonce \o pt \o <<Len(key), Len(nonce), Len(pt)>>

\* opens only what Seal produced under the same key and nonce
Open(key, nonce, ct) ==
    LET n2 == Len(ct) - Len(key) - Len(nonce) - 3
        pt == IF n2 >= 0 THEN SubSeq(ct, 1, n2 \div 2) ELSE <<>>
    IN IF n2 >= 0 /\ n2 % 2 = 0 /\ ct = Seal(key, nonce, pt)
       THEN [ok |-> TRUE, pt |-> pt]
       ELSE [ok |-> FALSE, pt |-> <<>>]

\* crypto-core.js 52-71
encryptFileChunk(key, chunk, nonce) == Seal(key, nonce, chunk)

\* variant: the stored nonce is not passed on as the iv
decryptFileChunkZeroIv(key, chunk, nonce) == Open(key, zeroize(nonce), chunk)

\* crypto-core.js 73-92
decryptFileChunk(key, chunk, nonce) == Open(key, nonce, chunk)

(* --------------- files, streams and the record list ------------------- *)
\* the pipeline never inspects file bytes: a file of n bytes is 1, 2, .. n,
\* so that any two pieces of it differ
Files == {[i \in 1..n |-> i] : n \in 0..MaxFileLen}

RECURSIVE Concat(_)
Concat(chunks) ==
    IF chunks = <<>> THEN <<>> ELSE Head(chunks) \o Concat(Tail(chunks))

\* an attacker flips a bit of record i's ciphertext (i = 0: untouched)
Tamper(records, i) ==
    IF i = 0 THEN records
    ELSE [records EXCEPT ![i].cipherChunk = [@ EXCEPT ![1] = @ + 1]]

(* ------------- encryptFile (src/crypto/crypto-core.js 96-115) --------- *)
NoOrigin == [file |-> <<>>, password |-> <<>>, salt |-> <<>>, key |-> <<>>,
             chunks |-> <<>>, records |-> <<>>]

\* salt, key: the buffers; saltUsed, keyUsed, chunks: history of what was
\* passed to deriveKey, what it returned and what the reader delivered
NoEnc ==
    [caller |-> "none", file |-> <<>>, password |-> <<>>, salt |-> <<>>,
     saltUsed |-> <<>>, key |-> <<>>, keyUsed |-> <<>>, remaining |-> <<>>,
     chunk |-> <<>>, chunks |-> <<>>, encryptedChunks |-> <<>>,
     chunkIndex |-> 0, err |-> "none"]

OriginOf(e) ==
    [file |-> e.file, password |-> e.password, salt |-> e.saltUsed,
     key |-> e.keyUsed, chunks |-> e.chunks, records |-> e.encryptedChunks]

\* variant: one base nonce, drawn for the first chunk, serves every chunk
ChunkNonceBase(e, n) ==
    IF e.encryptedChunks = <<>> THEN randomBytes(NONCE_LEN, n)
    ELSE e.encryptedChunks[1].nonce

\* line 106: the nonce of the chunk being encrypted, n the CSPRNG draw
ChunkNonce(e, n) == randomBytes(NONCE_LEN, n)

\* variant: the record is put in front (unshift)
PushRecordFront(list, rec) == <<rec>> \o list

\* line 108: encryptedChunks.push({ cipherChunk, nonce })
PushRecord(list, rec) == Append(list, rec)

\* lines 97 and 38-48: generateFileKey draws the salt and calls deriveKey
EncryptFileStart(caller, file, password) ==
    LET salt == randomBytes(SALT_LEN, rng + 1) IN
    /\ rng' = rng + 1
    /\ enc' = [NoEnc EXCEPT !.caller = caller, !.file = file,
                            !.password = password, !.salt = salt,
                            !.saltUsed = salt]
    /\ dk' = [dk EXCEPT ![1] = deriveKey(DeriveArgs(password, salt, 128))]
    /\ pc' = "enc_derive"

\* lines 97-100: generateFileKey returns, the reader is opened
EncDerived ==
    /\ pc = "enc_derive"
    /\ dk[1].pc = "ret"
    /\ enc' = [enc EXCEPT !.key = dk[1].key, !.keyUsed = dk[1].key,
                          !.remaining = enc.file]
    /\ dk' = [dk EXCEPT ![1] = IdleFrame]
    /\ pc' = "enc_read"
    /\ UNCHANGED <<auxVars, rng, argon2Instance, instCount, heaps, derived, calls,
                   dec, ret, lastEncryptedFile, lastOrigin, ops, vlt>>

\* deriveKey threw: encryptFile rejects before a key exists
EncDeriveThrown ==
    /\ pc = "enc_derive"
    /\ dk[1].pc = "thrown"
    /\ enc' = [enc EXCEPT !.err = dk[1].err]
    /\ dk' = [dk EXCEPT ![1] = IdleFrame]
    /\ pc' = "enc_thrown"
    /\ UNCHANGED <<auxVars, rng, argon2Instance, instCount, heaps, derived, calls,
                   dec, ret, lastEncryptedFile, lastOrigin, ops, vlt>>

\* line 103: reader.read() delivers the next non-empty piece of the file
ReadChunk ==
    /\ pc = "enc_read"
    /\ enc.remaining # <<>>
    /\ \E n \in 1..Len(enc.remaining) :
          enc' = [enc EXCEPT
                    !.chunk = SubSeq(enc.remaining, 1, n),
                    !.chunks = Append(@, SubSeq(enc.remaining, 1, n)),
                    !.remaining = SubSeq(@, n + 1, Len(@))]
    /\ pc' = "enc_chunk"
    /\ UNCHANGED <<auxVars, rng, kdfVars, derived, calls,
                   dec, ret, lastEncryptedFile, lastOrigin, ops, vlt>>

\* lines 104, 112-114: done, the key is wiped and the result returned
ReadDone ==
    /\ pc = "enc_read"
    /\ enc.remaining = <<>>
    /\ enc' = [enc EXCEPT !.key = zeroize(@)]
    /\ pc' = "enc_done"
    /\ UNCHANGED <<auxVars, rng, kdfVars, derived, calls,
                   dec, ret, lastEncryptedFile, lastOrigin, ops, vlt>>

\* line 103: reader.read() rejects
ReadFail ==
    /\ pc = "enc_read"
    /\ enc' = [enc EXCEPT !.err = "read"]
    /\ pc' = "enc_thrown"
    /\ UNCHANGED <<auxVars, rng, kdfVars, derived, calls,
                   dec, ret, lastEncryptedFile, lastOrigin, ops, vlt>>

\* lines 106-109; ok is whether encryptFileChunk resolved
EncryptChunk ==
    /\ pc = "enc_chunk"
    /\ rng' = rng + 1
    /\ \E ok \in BOOLEAN :
          LET nonce == ChunkNonce(enc, rng + 1)
              cipherChunk == encryptFileChunk(enc.key, enc.chunk, nonce)
          IN IF ok
             THEN /\ enc' = [enc EXCEPT
                              !.encryptedChunks =
                                  PushRecord(@, [cipherChunk |-> cipherChunk,
                                                 nonce |-> nonce]),
                              !.chunkIndex = @ + 1]
                  /\ pc' = "enc_read"
             ELSE /\ enc' = [enc EXCEPT !.err = "encrypt"]
                  /\ pc' = "enc_thrown"
    /\ UNCHANGED <<auxVars, kdfVars, derived, calls,
                   dec, ret, lastEncryptedFile, lastOrigin, ops, vlt>>


(* ------------- decryptFile (src/crypto/crypto-core.js 117-135) -------- *)
\* result: what the caller of decryptFile holds; origin, tampered: history
\* (tampered: 0 the records as returned, i > 0 record i modified, -1 whole
\* records displaced)
NoDec ==
    [caller |-> "none", encryptedChunks |-> <<>>, password |-> <<>>,
     salt |-> <<>>, key |-> <<>>, keyUsed |-> <<>>, decryptedChunks |-> <<>>,
     idx |-> 1, err |-> "none",
     result |-> [status |-> "pending", chunks |-> <<>>],
     origin |-> NoOrigin, tampered |-> 0]

\* lines 118-126: deriveKey is called with the caller's salt
DecryptFileStart(caller, encryptedChunks, password, salt, origin, t) ==
    /\ dec' = [NoDec EXCEPT !.caller = caller,
                            !.encryptedChunks = encryptedChunks,
                            !.password = password, !.salt = salt,
                            !.origin = origin, !.tampered = t]
    /\ dk' = [dk EXCEPT ![1] = deriveKey(DeriveArgs(password, salt, 128))]
    /\ pc' = "dec_derive"

DecDerived ==
    /\ pc = "dec_derive"
    /\ dk[1].pc = "ret"
    /\ dec' = [dec EXCEPT !.key = dk[1].key, !.keyUsed = dk[1].key]
    /\ dk' = [dk EXCEPT ![1] = IdleFrame]
    /\ pc' = "dec_loop"
    /\ UNCHANGED <<auxVars, rng, argon2Instance, instCount, heaps, derived, calls,
                   enc, ret, lastEncryptedFile, lastOrigin, ops, vlt>>

DecDeriveThrown ==
    /\ pc = "dec_derive"
    /\ dk[1].pc = "thrown"
    /\ dec' = [dec EXCEPT !.err = dk[1].err, !.result.status = "thrown"]
    /\ dk' = [dk EXCEPT ![1] = IdleFrame]
    /\ pc' = "dec_thrown"
    /\ UNCHANGED <<auxVars, rng, argon2Instance, instCount, heaps, derived, calls,
                   enc, ret, lastEncryptedFile, lastOrigin, ops, vlt>>

\* variant: a failing record is caught and skipped, the loop goes on
decryptFileLoopSkip(d) ==
    IF d.idx > Len(d.encryptedChunks)
    THEN [pc |-> "dec_done",
          d |-> [d EXCEPT !.key = zeroize(@),
                          !.result = [status |-> "returned",
                                      chunks |-> d.decryptedChunks]]]
    ELSE LET rec == d.encryptedChunks[d.idx]
             plain == decryptFileChunk(d.key, rec.cipherChunk, rec.nonce)
         IN [pc |-> "dec_loop",
             d |-> [d EXCEPT !.decryptedChunks =
                                 IF plain.ok THEN Append(@, plain.pt) ELSE @,
                             !.idx = @ + 1]]

\* lines 128-134: one turn of the for-of loop, or the exit after it
decryptFileLoop(d) ==
    IF d.idx > Len(d.encryptedChunks)
    THEN [pc |-> "dec_done",
          d |-> [d EXCEPT !.key = zeroize(@),
                          !.result = [status |-> "returned",
                                      chunks |-> d.decryptedChunks]]]
    ELSE LET rec == d.encryptedChunks[d.idx]
             plain == decryptFileChunk(d.key, rec.cipherChunk, rec.nonce)
         IN IF plain.ok
            THEN [pc |-> "dec_loop",
                  d |-> [d EXCEPT !.decryptedChunks = Append(@, plain.pt),
                                  !.idx = @ + 1]]
            ELSE [pc |-> "dec_thrown",
                  d |-> [d EXCEPT !.err = "auth",
                                  !.result.status = "thrown"]]

DecryptStep ==
    /\ pc = "dec_loop"
    /\ dec' = decryptFileLoop(dec).d
    /\ pc' = decryptFileLoop(dec).pc
    /\ UNCHANGED <<auxVars, rng, kdfVars, derived, calls,
                   enc, ret, lastEncryptedFile, lastOrigin, ops, vlt>>

(* ------------------- callers (src/app.js 70-133) ---------------------- *)
NoStored == [set |-> FALSE, encryptedChunks |-> <<>>, salt |-> <<>>]
NoRet == [set |-> FALSE, encryptedChunks |-> <<>>, salt |-> <<>>,
          origin |-> NoOrigin]

\* app.js 70-82: the encrypt button; hasFile is whether a file is selected
handleEncrypt ==
    /\ pc = "idle"
    /\ vlt.pc = "idle"
    /\ ops < MaxOps
    /\ ops' = ops + 1
    /\ \E password \in Passwords, hasFile \in BOOLEAN, file \in Files :
          IF Len(password) = 0 \/ ~hasFile
          THEN UNCHANGED <<auxVars, rng, dk, pc, enc>>
          ELSE EncryptFileStart("app", file, password)
    /\ UNCHANGED <<auxVars, argon2Instance, instCount, heaps, derived, calls,
                   dec, ret, lastEncryptedFile, lastOrigin, vlt>>

\* app.js 83-96: encryptFile returned; the salt is wiped, then stored
handleEncryptStore ==
    /\ pc = "enc_done"
    /\ enc.caller = "app"
    /\ enc' = NoEnc
    /\ lastEncryptedFile' =
          [set |-> TRUE, encryptedChunks |-> enc.encryptedChunks,
           salt |-> zeroize(enc.salt)]
    /\ lastOrigin' = OriginOf(enc)
    /\ pc' = "idle"
    /\ UNCHANGED <<auxVars, rng, kdfVars, derived, calls, dec, ret, ops, vlt>>

\* a direct caller of encryptFile (as selfTest, crypto-core.js 143-146)
directEncrypt ==
    /\ pc = "idle"
    /\ vlt.pc = "idle"
    /\ ops < MaxOps
    /\ ops' = ops + 1
    /\ \E password \in Passwords, file \in Files :
          EncryptFileStart("direct", file, password)
    /\ UNCHANGED <<auxVars, argon2Instance, instCount, heaps, derived, calls,
                   dec, ret, lastEncryptedFile, lastOrigin, vlt>>

\* the direct caller keeps { encryptedChunks, salt }
directEncryptReturn ==
    /\ pc = "enc_done"
    /\ enc.caller = "direct"
    /\ ret' = [set |-> TRUE, encryptedChunks |-> enc.encryptedChunks,
               salt |-> enc.salt, origin |-> OriginOf(enc)]
    /\ enc' = NoEnc
    /\ pc' = "idle"
    /\ UNCHANGED <<auxVars, rng, kdfVars, derived, calls, dec,
                   lastEncryptedFile, lastOrigin, ops, vlt>>

\* encryptFile rejected: the error reaches the caller
encryptCatch ==
    /\ pc = "enc_thrown"
    /\ enc' = NoEnc
    /\ pc' = "idle"
    /\ UNCHANGED <<auxVars, rng, kdfVars, derived, calls, dec, ret,
                   lastEncryptedFile, lastOrigin, ops, vlt>>

\* app.js 101-113: the decrypt button
handleDecrypt ==
    /\ pc = "idle"
    /\ vlt.pc = "idle"
    /\ ops < MaxOps
    /\ ops' = ops + 1
    /\ \E password \in Passwords :
          IF Len(password) = 0 \/ ~lastEncryptedFile.set
          THEN UNCHANGED <<auxVars, dk, pc, dec>>
          ELSE DecryptFileStart("app", lastEncryptedFile.encryptedChunks,
                                password, lastEncryptedFile.salt,
                                lastOrigin, 0)
    /\ UNCHANGED <<auxVars, rng, argon2Instance, instCount, heaps, derived, calls,
                   enc, ret, lastEncryptedFile, lastOrigin, vlt>>

\* a direct caller of decryptFile (as selfTest, crypto-core.js 148), with
\* the records as returned or with one of them modified on the way
directDecrypt ==
    /\ pc = "idle"
    /\ vlt.pc = "idle"
    /\ ops < MaxOps
    /\ ret.set
    /\ ops' = ops + 1
    /\ \E password \in Passwords, t \in 0..Len(ret.encryptedChunks) :
          DecryptFileStart("direct", Tamper(ret.encryptedChunks, t),
                           password, ret.salt, ret.origin, t)
    /\ UNCHANGED <<auxVars, rng, argon2Instance, instCount, heaps, derived, calls,
                   enc, ret, lastEncryptedFile, lastOrigin, vlt>>

\* whole records displaced, as an attacker holding the list can do: the
\* list cut short at the end, two neighbours exchanged, a record repeated
Truncated(records) ==
    {SubSeq(records, 1, k) : k \in 0..(Len(records) - 1)}

Reordered(records) ==
    {[records EXCEPT ![i] = records[i + 1], ![i + 1] = records[i]] :
        i \in 1..(Len(records) - 1)}

Duplicated(records) ==
    {SubSeq(records, 1, i) \o SubSeq(records, i, Len(records)) :
        i \in 1..Len(records)}

Rearranged(records) ==
    Truncated(records) \cup Reordered(records) \cup Duplicated(records)

\* a direct caller of decryptFile with a rearranged record list
directDecryptRearranged ==
    /\ pc = "idle"
    /\ vlt.pc = "idle"
    /\ ops < MaxOps
    /\ ret.set
    /\ ops' = ops + 1
    /\ \E password \in Passwords, list \in Rearranged(ret.encryptedChunks) :
          DecryptFileStart("direct", list, password, ret.salt, ret.origin, -1)
    /\ UNCHANGED <<auxVars, rng, argon2Instance, instCount, heaps, derived, calls,
                   enc, ret, lastEncryptedFile, lastOrigin, vlt>>

\* decryptFile settled: the chunk list or the error reaches the caller
decryptSettle ==
    /\ pc \in {"dec_done", "dec_thrown"}
    /\ dec' = NoDec
    /\ pc' = "idle"
    /\ UNCHANGED <<auxVars, rng, kdfVars, derived, calls, enc, ret,
                   lastEncryptedFile, lastOrigin, ops, vlt>>

(* --------- single-shot vault container (src/unnamed/part_002) --------- *)
\* "SVLT1" as character codes
VAULT_MAGIC == <<83, 86, 76, 84, 49>>
HEADER_VERSION == 1
MAGIC_LEN == 5
SALT_OFFSET == 6
NONCE_OFFSET == 38
HEADER_LEN == 62

\* Uint8Array.slice(from, to), zero-based and clamped to the buffer
Slice(buffer, from, to) ==
    SubSeq(buffer, from + 1, IF to < Len(buffer) THEN to ELSE Len(buffer))

\* buffer[i], zero-based; -1 stands for undefined
ByteAt(buffer, i) == IF i + 1 <= Len(buffer) THEN buffer[i + 1] ELSE -1

\* UTF-8 decoding: one- and two-byte sequences give their code point, any
\* other byte gives U+FFFD
RECURSIVE Utf8Decode(_)
Utf8Decode(bytes) ==
    IF bytes = <<>> THEN <<>>
    ELSE IF bytes[1] < 128 THEN <<bytes[1]>> \o Utf8Decode(Tail(bytes))
    ELSE IF /\ Len(bytes) >= 2
            /\ bytes[1] \in 194..223
            /\ bytes[2] \in 128..191
         THEN <<(bytes[1] - 192) * 64 + (bytes[2] - 128)>>
              \o Utf8Decode(Tail(Tail(bytes)))
         ELSE <<65533>> \o Utf8Decode(Tail(bytes))

\* new TextDecoder().decode(bytes): a leading byte order mark is dropped
TextDecode(bytes) ==
    IF Len(bytes) >= 3 /\ SubSeq(bytes, 1, 3) = <<239, 187, 191>>
    THEN Utf8Decode(SubSeq(bytes, 4, Len(bytes)))
    ELSE Utf8Decode(bytes)

\* part_002 39-47
createHeader(salt, nonce) ==
    strToBytes(VAULT_MAGIC) \o <<HEADER_VERSION>> \o salt \o nonce

\* part_002 49-61
parseHeader(buffer) ==
    LET magic == TextDecode(Slice(buffer, 0, MAGIC_LEN))
    IN IF magic # VAULT_MAGIC
       THEN [ok |-> FALSE, version |-> -1, salt |-> <<>>, nonce |-> <<>>,
             offset |-> 0]
       ELSE [ok |-> TRUE,
             version |-> ByteAt(buffer, MAGIC_LEN),
             salt |-> Slice(buffer, SALT_OFFSET, NONCE_OFFSET),
             nonce |-> Slice(buffer, NONCE_OFFSET, HEADER_LEN),
             offset |-> HEADER_LEN]

\* argon2id({...}) as imported by part_002: the memory-hard primitive
argon2id(password, salt) ==
    Argon2idHashRaw(5, 65536, 4, password, salt, 32)

\* wipeBuffer(buffer) as imported by part_002
wipeBuffer(buffer) == zeroize(buffer)

NoHeader == [ok |-> FALSE, version |-> -1, salt |-> <<>>, nonce |-> <<>>,
             offset |-> 0]

\* input: the bytes handed in; container: the last Blob encryptFile made;
\* keyUsed: history of the key argon2id returned
NoVault ==
    [pc |-> "idle", op |-> "none", input |-> <<>>, password |-> <<>>,
     salt |-> <<>>, nonce |-> <<>>, pwdBytes |-> <<>>, masterKey |-> <<>>,
     keyUsed |-> <<>>, header |-> NoHeader, container |-> <<>>,
     made |-> FALSE, output |-> <<>>, err |-> "none"]

\* what may reach decryptFile: the container as written, or changed
Presented(container) ==
    {container}
    \cup {[container EXCEPT ![i] = @ + 1] :
             i \in {j \in {1, MAGIC_LEN, Len(container)} : j <= Len(container)}}
    \cup {[container EXCEPT ![MAGIC_LEN + 1] = v] : v \in {0, 2}}
    \cup {SubSeq(container, 1, n) : n \in {0, 3, MAGIC_LEN, SALT_OFFSET}}
    \cup {<<239, 187, 191>> \o container}

\* part_002 66-70 and 19-30: salt and nonce are drawn, argon2id is awaited
vaultEncryptFile ==
    /\ pc = "idle"
    /\ vlt.pc = "idle"
    /\ ops < MaxOps
    /\ ops' = ops + 1
    /\ rng' = rng + 2
    /\ \E password \in Passwords, arrayBuffer \in Files :
          vlt' = [vlt EXCEPT
                    !.pc = "enc_derive", !.op = "encrypt",
                    !.input = arrayBuffer, !.password = password,
                    !.salt = randomBytes(SALT_LEN, rng + 1),
                    !.nonce = randomBytes(NONCE_LEN, rng + 2),
                    !.pwdBytes = strToBytes(password),
                    !.masterKey = <<>>, !.keyUsed = <<>>,
                    !.header = NoHeader, !.output = <<>>, !.err = "none"]
    /\ UNCHANGED <<auxVars, kdfVars, derived, calls, pc, enc, dec, ret,
                   lastEncryptedFile, lastOrigin>>

\* part_002 22-33: argon2id settles; ok is whether it resolved
deriveMasterKey ==
    /\ vlt.pc \in {"enc_derive", "dec_derive"}
    /\ \E ok \in BOOLEAN :
          vlt' = IF ok
                 THEN [vlt EXCEPT
                         !.masterKey = argon2id(vlt.pwdBytes, vlt.salt),
                         !.keyUsed = argon2id(vlt.pwdBytes, vlt.salt),
                         !.pwdBytes = wipeBuffer(@),
                         !.pc = IF vlt.op = "encrypt" THEN "enc_cipher"
                                ELSE "dec_cipher"]
                 ELSE [vlt EXCEPT !.pc = "thrown", !.err = "argon2"]
    /\ UNCHANGED <<auxVars, rng, kdfVars, derived, calls, pipeVars>>

\* part_002 72-92: the AEAD settles; ok is whether encrypt resolved
vaultEncryptSettle ==
    /\ vlt.pc = "enc_cipher"
    /\ \E ok \in BOOLEAN :
          vlt' = IF ok
                 THEN [vlt EXCEPT
                         !.container =
                             createHeader(vlt.salt, vlt.nonce)
                             \o Seal(vlt.masterKey, vlt.nonce, vlt.input),
                         !.made = TRUE,
                         !.masterKey = wipeBuffer(@),
                         !.pc = "done"]
                 ELSE [vlt EXCEPT !.pc = "thrown", !.err = "encrypt"]
    /\ UNCHANGED <<auxVars, rng, kdfVars, derived, calls, pipeVars>>

\* part_002 98-102: the header is parsed, then argon2id is awaited
vaultDecryptFile ==
    /\ pc = "idle"
    /\ vlt.pc = "idle"
    /\ vlt.made
    /\ ops < MaxOps
    /\ ops' = ops + 1
    /\ \E password \in Passwords, arrayBuffer \in Presented(vlt.container) :
          LET header == parseHeader(arrayBuffer)
              v == [vlt EXCEPT
                      !.op = "decrypt", !.input = arrayBuffer,
                      !.password = password, !.header = header,
                      !.salt = <<>>, !.nonce = <<>>, !.pwdBytes = <<>>,
                      !.masterKey = <<>>, !.keyUsed = <<>>,
                      !.output = <<>>, !.err = "none"]
          IN vlt' = IF ~header.ok
                    THEN [v EXCEPT !.pc = "thrown", !.err = "format"]
                    ELSE [v EXCEPT !.pc = "dec_derive",
                                   !.salt = header.salt,
                                   !.nonce = header.nonce,
                                   !.pwdBytes = strToBytes(password)]
    /\ UNCHANGED <<auxVars, rng, kdfVars, derived, calls, pc, enc, dec, ret,
                   lastEncryptedFile, lastOrigin>>

\* part_002 104-120: the AEAD opens the bytes after the header, or rejects
vaultDecryptSettle ==
    /\ vlt.pc = "dec_cipher"
    /\ LET encryptedData ==
              Slice(vlt.input, vlt.header.offset, Len(vlt.input))
           decrypted == Open(vlt.masterKey, vlt.nonce, encryptedData)
       IN vlt' = IF decrypted.ok
                 THEN [vlt EXCEPT !.output = decrypted.pt,
                                  !.masterKey = wipeBuffer(@),
                                  !.pc = "done"]
                 ELSE [vlt EXCEPT !.pc = "thrown", !.err = "auth"]
    /\ UNCHANGED <<auxVars, rng, kdfVars, derived, calls, pipeVars>>

\* the Blob, the plaintext or the error reaches the caller
vaultReturn ==
    /\ vlt.pc \in {"done", "thrown"}
    /\ vlt' = [vlt EXCEPT !.pc = "idle"]
    /\ UNCHANGED <<auxVars, rng, kdfVars, derived, calls, pipeVars>>

(* --------- withEphemeralContext (src/app.js 245-262) ------------------ *)
NOISE_MIN == 1
NOISE_MAX == 4

\* line 246-247: Math.floor(Math.random() * (max - min + 1)) + min, where
\* Math.random() is r / RandomSteps
timingNoise(min, max, r) == (r * (max - min + 1)) \div RandomSteps + min

\* the callbacks handed in: an async function that resolves with v or
\* rejects with v, or a function that throws v when it is called
Fns == [kind : {"resolve", "reject", "throw"}, v : {1, 2}]
NoFn == [kind |-> "none", v |-> 0]
NoOutcome == [kind |-> "none", v |-> 0]

\* how fn's call settles
OutcomeOf(fn) ==
    IF fn.kind = "resolve" THEN [kind |-> "value", v |-> fn.v]
    ELSE [kind |-> "error", v |-> fn.v]

NoEph ==
    [pc |-> "idle", fn |-> NoFn, runs |-> 0, outcome |-> NoOutcome,
     delay |-> 0, waited |-> 0, observed |-> NoOutcome]

\* variant: a catch-less wrapper whose delay follows the success path only
enterFinallyOnSuccess(f, outcome, r) ==
    IF outcome.kind = "error"
    THEN [f EXCEPT !.pc = "settled", !.outcome = outcome,
                   !.observed = outcome]
    ELSE [f EXCEPT !.pc = "noise", !.outcome = outcome,
                   !.delay = timingNoise(NOISE_MIN, NOISE_MAX, r)]

\* lines 259-260: the finally block is entered with fn's outcome pending and
\* timingNoise() sets its timer
enterFinally(f, outcome, r) ==
    [f EXCEPT !.pc = "noise", !.outcome = outcome,
              !.delay = timingNoise(NOISE_MIN, NOISE_MAX, r)]

\* lines 256-258: fn is called inside the try block
withEphemeralContext(p) ==
    /\ eph[p].pc = "idle"
    /\ calls < MaxCalls
    /\ calls' = calls + 1
    /\ \E fn \in Fns, r \in 0..(RandomSteps - 1) :
          LET called == [NoEph EXCEPT !.fn = fn, !.runs = 1]
          IN eph' = [eph EXCEPT ![p] =
                        IF fn.kind = "throw"
                        THEN enterFinally(called, OutcomeOf(fn), r)
                        ELSE [called EXCEPT !.pc = "fn"]]
    /\ UNCHANGED <<audit, rng, kdfVars, derived, pipeVars, vlt>>

\* line 258: the promise fn returned settles
FnSettle(p) ==
    /\ eph[p].pc = "fn"
    /\ \E r \in 0..(RandomSteps - 1) :
          eph' = [eph EXCEPT ![p] = enterFinally(@, OutcomeOf(@.fn), r)]
    /\ UNCHANGED <<audit, rng, kdfVars, derived, calls, pipeVars, vlt>>

\* a millisecond of the timer set at line 248 passes
TimerTick(p) ==
    /\ eph[p].pc = "noise"
    /\ eph[p].waited < eph[p].delay
    /\ eph' = [eph EXCEPT ![p].waited = @ + 1]
    /\ UNCHANGED <<audit, rng, kdfVars, derived, calls, pipeVars, vlt>>

\* the timer fires, timingNoise resolves, the finally block completes and
\* the pending return or throw reaches the caller
TimerFire(p) ==
    /\ eph[p].pc = "noise"
    /\ eph[p].waited = eph[p].delay
    /\ eph' = [eph EXCEPT ![p] =
                  [@ EXCEPT !.pc = "settled", !.observed = eph[p].outcome]]
    /\ UNCHANGED <<audit, rng, kdfVars, derived, calls, pipeVars, vlt>>

\* the caller is done with the outcome
EphRelease(p) ==
    /\ eph[p].pc = "settled"
    /\ eph' = [eph EXCEPT ![p] = NoEph]
    /\ UNCHANGED <<audit, rng, kdfVars, derived, calls, pipeVars, vlt>>

NextEph ==
    \E p \in Procs :
       \/ withEphemeralContext(p)
       \/ FnSettle(p)
       \/ TimerTick(p)
       \/ TimerFire(p)
       \/ EphRelease(p)

(* ----------------- runSelfAudit (src/app.js 57-67) -------------------- *)
\* lines 213-223 and 310-317: equal lengths and no differing byte
constantTimeEqual(a, b) ==
    /\ Len(a) = Len(b)
    /\ \A i \in 1..Len(a) : a[i] = b[i]

\* lines 231-237: a copy that a later write to buffer does not reach
isolateBuffer(buffer) == [i \in 1..Len(buffer) |-> buffer[i]]

\* lines 269-280, selfTest of secure-utils.js; n is what the CSPRNG gives
utilSelfTest(n) ==
    LET a == randomBytes(SALT_LEN, n)
        b == isolateBuffer(a)
        equalBefore == constantTimeEqual(a, b)
        aWiped == zeroize(a)
        equalAfter == constantTimeEqual(aWiped, b)
    IN (equalBefore = TRUE) /\ (equalAfter = FALSE)

\* line 452: "self-test-password"
SelfTestPassword ==
    <<115, 101, 108, 102, 45, 116, 101, 115, 116, 45,
      112, 97, 115, 115, 119, 111, 114, 100>>

DEFAULT_MEMORY_MB == 64

NoAudit ==
    [pc |-> "idle", utilOK |-> "unset", argonOK |-> "unset",
     roundTripOK |-> "not run", salt |-> <<>>, a |-> <<>>, b |-> <<>>,
     report |-> "none"]

Verdict(ok) == IF ok THEN "pass" ELSE "fail"

\* lines 64-65: the message logged
auditReport(utilOK, argonOK) ==
    IF utilOK = "pass" /\ argonOK = "pass" THEN "passed" ELSE "failed"

\* lines 57-61 and 451-455: utilSelfTest() runs, then argonSelfTest() draws
\* its salt and awaits its first deriveKey; the CSPRNG may also give the
\* all-zero buffer
runSelfAudit ==
    /\ audit.pc = "idle"
    /\ dk[1].pc = "idle"
    /\ calls < MaxCalls
    /\ calls' = calls + 1
    /\ rng' = rng + 2
    /\ \E n \in {0, rng + 1} :
          LET salt == randomBytes(SALT_LEN, rng + 2)
          IN /\ audit' = [NoAudit EXCEPT !.pc = "argon_a",
                                         !.utilOK = Verdict(utilSelfTest(n)),
                                         !.salt = salt]
             /\ dk' = [dk EXCEPT ![1] =
                          deriveKey(DeriveArgs(SelfTestPassword, salt,
                                               DEFAULT_MEMORY_MB))]
    /\ UNCHANGED <<eph, argon2Instance, instCount, heaps, derived, pipeVars, vlt>>

\* lines 455-456: the first key is received and deriveKey is called again
ArgonSelfTestSecond ==
    /\ audit.pc = "argon_a"
    /\ dk[1].pc = "ret"
    /\ audit' = [audit EXCEPT !.pc = "argon_b", !.a = dk[1].key]
    /\ dk' = [dk EXCEPT ![1] =
                 deriveKey(DeriveArgs(SelfTestPassword, audit.salt,
                                      DEFAULT_MEMORY_MB))]
    /\ UNCHANGED <<eph, rng, argon2Instance, instCount, heaps, derived, calls,
                   pipeVars, vlt>>

\* lines 456-458 and 61-65: the second key is received, the keys are
\* compared and the verdict is logged
AuditReport ==
    /\ audit.pc = "argon_b"
    /\ dk[1].pc = "ret"
    /\ LET argonOK == Verdict(constantTimeEqual(audit.a, dk[1].key))
       IN audit' = [audit EXCEPT !.pc = "done", !.b = dk[1].key,
                                 !.argonOK = argonOK,
                                 !.report = auditReport(audit.utilOK, argonOK)]
    /\ dk' = [dk EXCEPT ![1] = IdleFrame]
    /\ UNCHANGED <<eph, rng, argon2Instance, instCount, heaps, derived, calls,
                   pipeVars, vlt>>

\* a deriveKey of argonSelfTest throws: nothing catches it in runSelfAudit
AuditThrown ==
    /\ audit.pc \in {"argon_a", "argon_b"}
    /\ dk[1].pc = "thrown"
    /\ audit' = [audit EXCEPT !.pc = "thrown", !.argonOK = "threw"]
    /\ dk' = [dk EXCEPT ![1] = IdleFrame]
    /\ UNCHANGED <<eph, rng, argon2Instance, instCount, heaps, derived, calls,
                   pipeVars, vlt>>

\* line 136: the task is over and the button can be clicked again
AuditOver ==
    /\ audit.pc \in {"done", "thrown"}
    /\ audit' = NoAudit
    /\ UNCHANGED <<eph, rng, kdfVars, derived, calls, pipeVars, vlt>>

NextAudit ==
    \/ runSelfAudit
    \/ DeriveStep(1)
    \/ ArgonSelfTestSecond
    \/ AuditReport
    \/ AuditThrown
    \/ AuditOver

(* --------------------------- specification ---------------------------- *)
Init ==
    /\ rng = 0
    /\ argon2Instance = 0
    /\ instCount = 0
    /\ heaps = [i \in Procs |-> FreshHeap]
    /\ dk = [p \in Procs |-> IdleFrame]
    /\ derived = {}
    /\ calls = 0
    /\ pc = "idle"
    /\ enc = NoEnc
    /\ dec = NoDec
    /\ ret = NoRet
    /\ lastEncryptedFile = NoStored
    /\ lastOrigin = NoOrigin
    /\ ops = 0
    /\ vlt = NoVault
    /\ eph = [p \in Procs |-> NoEph]
    /\ audit = NoAudit

Next ==
    \/ handleEncrypt
    \/ directEncrypt
    \/ DeriveStep(1)
    \/ EncDerived
    \/ EncDeriveThrown
    \/ ReadChunk
    \/ ReadDone
    \/ ReadFail
    \/ EncryptChunk
    \/ handleEncryptStore
    \/ directEncryptReturn
    \/ encryptCatch
    \/ handleDecrypt
    \/ directDecrypt
    \/ directDecryptRearranged
    \/ DecDerived
    \/ DecDeriveThrown
    \/ DecryptStep
    \/ decryptSettle

Spec == Init /\ [][Next]_vars

\* the single-shot vault container task on its own
NextVault ==
    \/ vaultEncryptFile
    \/ deriveMasterKey
    \/ vaultEncryptSettle
    \/ vaultDecryptFile
    \/ vaultDecryptSettle
    \/ vaultReturn

SpecVault == Init /\ [][NextVault]_vars

\* callers of withEphemeralContext on their own
SpecEph == Init /\ [][NextEph]_vars

\* the self-audit task on its own
SpecAudit == Init /\ [][NextAudit]_vars


(* ------------------------------ properties ---------------------------- *)
\* errors raised by the collaborators deriveKey depends on
EnvErrors == {"pbkdf2", "wasm-load", "argon2"}

Settled == pc \in {"dec_done", "dec_thrown"}

\* decryptFile was given exactly what encryptFile returned, same password
HonestDirect ==
    /\ dec.caller = "direct"
    /\ dec.tampered = 0
    /\ dec.password = dec.origin.password

\* C1: encryptFile followed by decryptFile on the returned encryptedChunks
\* and salt with the same password never ends in an authentication error,
\* and the chunks it returns concatenate to the original file bytes (it can
\* only be stopped by a failure of PBKDF2, of the WASM load or of Argon2).
C1_RoundTrip ==
    (Settled /\ HonestDirect) =>
        /\ pc = "dec_thrown" => dec.err \in EnvErrors
        /\ pc = "dec_done" =>
              /\ dec.result.status = "returned"
              /\ Concat(dec.result.chunks) = dec.origin.file

\* a file read in two or more chunks came back
C1_Witness ==
    /\ pc = "dec_done"
    /\ HonestDirect
    /\ Len(dec.result.chunks) >= 2
    /\ Concat(dec.result.chunks) = dec.origin.file

\* a file of zero chunks came back
C1_WitnessEmpty ==
    /\ pc = "dec_done"
    /\ HonestDirect
    /\ dec.origin.file = <<>>

\* C2: when decryptFileChunk fails for the record at index i, decryptFile
\* throws at that record: the records before i had verified, none after i is
\* processed, and the caller holds no chunk list; a call that returns has
\* verified every record.
C2_FailClosed ==
    /\ (pc = "dec_thrown" /\ dec.err = "auth") =>
          /\ dec.result = [status |-> "thrown", chunks |-> <<>>]
          /\ dec.idx \in 1..Len(dec.encryptedChunks)
          /\ Len(dec.decryptedChunks) = dec.idx - 1
          /\ ~decryptFileChunk(dec.keyUsed,
                               dec.encryptedChunks[dec.idx].cipherChunk,
                               dec.encryptedChunks[dec.idx].nonce).ok
    /\ pc = "dec_done" =>
          \A i \in 1..Len(dec.encryptedChunks) :
              decryptFileChunk(dec.keyUsed, dec.encryptedChunks[i].cipherChunk,
                               dec.encryptedChunks[i].nonce).ok

\* a later record fails after an earlier one had verified
C2_Witness ==
    /\ pc = "dec_thrown"
    /\ dec.err = "auth"
    /\ Len(dec.decryptedChunks) >= 1

\* C3: decryptFile with a password other than the one the container was
\* encrypted with ends in an error and returns no chunk list.
C3_WrongPasswordFails ==
    (Settled /\ dec.password # dec.origin.password) =>
        /\ pc = "dec_thrown"
        /\ dec.err \in {"auth", "validation"} \cup EnvErrors
        /\ dec.result = [status |-> "thrown", chunks |-> <<>>]

\* C4: when encryptFile or decryptFile has returned or thrown, every byte of
\* the key buffer obtained from deriveKey is zero.
C4_KeyZeroizedOnExit ==
    /\ pc \in {"enc_done", "enc_thrown"} => IsZero(enc.key)
    /\ pc \in {"dec_done", "dec_thrown"} => IsZero(dec.key)

\* the regions a deriveKey activation allocated
Regions(f) == {f.pwdPtr, f.saltPtr, f.outPtr} \ {0}

\* C5: when deriveKey has returned or thrown, the encoded password, the
\* PBKDF2 output and the three WASM regions are zero-filled and the regions
\* are freed.
C5_IntermediatesWiped ==
    \A p \in Procs :
        dk[p].pc \in {"ret", "thrown"} =>
            /\ IsZero(dk[p].passwordBytes)
            /\ IsZero(dk[p].hardened)
            /\ \A r \in Regions(dk[p]) :
                  /\ IsZero(heaps[dk[p].argon2].mem[r])
                  /\ r \notin heaps[dk[p].argon2].used

\* C6: parseHeader returns a header only for an input that begins with the
\* magic marker and whose version byte is the supported version (stated for
\* the inputs that are long enough to have a version byte).
C6_HeaderAccepted ==
    (vlt.header.ok /\ Len(vlt.input) > MAGIC_LEN) =>
        /\ Slice(vlt.input, 0, MAGIC_LEN) = strToBytes(VAULT_MAGIC)
        /\ vlt.header.version = HEADER_VERSION

\* C7: the salt held in window.lastEncryptedFile is the salt encryptFile
\* passed to deriveKey.
C7_StoredSaltIsDerivationSalt ==
    lastEncryptedFile.set => lastEncryptedFile.salt = lastOrigin.salt

\* every deriveKey result so far: those received and those just returned
Results ==
    derived \cup {[args |-> ArgsOf(dk[p]), key |-> dk[p].key] :
                     p \in {q \in Procs : dk[q].pc = "ret"}}

\* C8: two deriveKey calls with identical arguments that both return give
\* identical keys, whatever other calls ran before or between them.
C8_Deterministic ==
    \A a \in Results, b \in Results : a.args = b.args => a.key = b.key

\* a call returns the key an earlier identical call returned, on a heap
\* that a failed derivation has left regions in
C8_Witness ==
    \E p \in Procs :
        /\ dk[p].pc = "ret"
        /\ \E d \in derived : d.args = ArgsOf(dk[p]) /\ d.key = dk[p].key
        /\ heaps[dk[p].argon2].used # {}

\* C9: every record of an encryptFile invocation carries a 24-byte nonce of
\* its own: no two records made under the file key share a nonce.
C9_NoncesDistinct ==
    \A i \in 1..Len(enc.encryptedChunks), j \in 1..Len(enc.encryptedChunks) :
        /\ Len(enc.encryptedChunks[i].nonce) = NONCE_LEN
        /\ i # j => enc.encryptedChunks[i].nonce # enc.encryptedChunks[j].nonce

\* an encryptFile call returned two or more records
C9_Witness ==
    /\ pc = "enc_done"
    /\ Len(enc.encryptedChunks) >= 2

\* C10: the i-th record of encryptFile is the encryption of the i-th chunk
\* read, the i-th chunk decryptFile returns is the decryption of the i-th
\* record, and the counts agree.
C10_OrderPreserved ==
    /\ pc = "enc_done" =>
          /\ Len(enc.encryptedChunks) = Len(enc.chunks)
          /\ \A i \in 1..Len(enc.chunks) :
                enc.encryptedChunks[i].cipherChunk =
                    encryptFileChunk(enc.keyUsed, enc.chunks[i],
                                     enc.encryptedChunks[i].nonce)
    /\ pc = "dec_done" =>
          /\ Len(dec.result.chunks) = Len(dec.encryptedChunks)
          /\ \A i \in 1..Len(dec.encryptedChunks) :
                LET plain == decryptFileChunk(dec.keyUsed,
                                 dec.encryptedChunks[i].cipherChunk,
                                 dec.encryptedChunks[i].nonce)
                IN plain.ok /\ dec.result.chunks[i] = plain.pt

\* two different chunks went through both directions
C10_Witness ==
    /\ pc = "dec_done"
    /\ Len(dec.result.chunks) >= 2
    /\ dec.result.chunks[1] # dec.result.chunks[2]
    /\ dec.result.chunks = dec.origin.chunks

\* C11: a caller of withEphemeralContext observes an outcome only after fn
\* ran exactly once and the timing-noise delay, of 1 to 4 milliseconds, has
\* fully elapsed, on the success and on the failure path alike; the outcome
\* observed is fn's own value or error.
C11_DelayBeforeOutcome ==
    \A p \in Procs :
       /\ eph[p].pc \in {"noise", "settled"} => eph[p].runs = 1
       /\ eph[p].pc # "settled" => eph[p].observed = NoOutcome
       /\ eph[p].pc = "settled" =>
             /\ eph[p].observed = OutcomeOf(eph[p].fn)
             /\ eph[p].delay \in NOISE_MIN..NOISE_MAX
             /\ eph[p].waited = eph[p].delay

\* one caller has observed fn's error and another fn's value
C11_Witness ==
    /\ eph[1].pc = "settled" /\ eph[1].observed.kind = "error"
    /\ eph[2].pc = "settled" /\ eph[2].observed.kind = "value"
    /\ eph[1].delay # eph[2].delay

\* C12: an audit that ran to its end reports "passed" exactly when the
\* memory-hygiene check, the KDF determinism check and the round-trip check
\* have all passed, and reports failure otherwise.
C12_AuditPassesIffAllPass ==
    audit.pc = "done" =>
       /\ audit.report \in {"passed", "failed"}
       /\ audit.report = "passed" <=>
             /\ audit.utilOK = "pass"
             /\ audit.argonOK = "pass"
             /\ audit.roundTripOK = "pass"

\* C13: however loadArgon2Wasm calls interleave, the WASM module is
\* instantiated at most once and every caller holds the same instance.
C13_InitializedOnce ==
    /\ instCount <= 1
    /\ \A p, q \in Procs :
          (dk[p].argon2 # 0 /\ dk[q].argon2 # 0) => dk[p].argon2 = dk[q].argon2

\* the deriveKey half of C14: a call with the empty password has thrown the
\* validation error with no encoded password, no PBKDF2 output, no WASM
\* handle and no region allocated
C14_DeriveKeyValidatesFirst ==
    \A p \in Procs :
       (dk[p].pc # "idle" /\ Len(dk[p].password) = 0) =>
          /\ dk[p].pc = "thrown" /\ dk[p].err = "validation"
          /\ dk[p].passwordBytes = <<>> /\ dk[p].hardened = <<>>
          /\ dk[p].argon2 = 0 /\ Regions(dk[p]) = {}

\* the container half of C14: a decryption handed a container with another
\* magic marker or another version has thrown the format error with no
\* encoded password and no derived key
C14_ContainerCheckedFirst ==
    (/\ vlt.pc # "idle"
     /\ vlt.op = "decrypt"
     /\ Len(vlt.input) > MAGIC_LEN
     /\ \/ Slice(vlt.input, 0, MAGIC_LEN) # strToBytes(VAULT_MAGIC)
        \/ ByteAt(vlt.input, MAGIC_LEN) # HEADER_VERSION) =>
       /\ vlt.pc = "thrown" /\ vlt.err = "format"
       /\ vlt.pwdBytes = <<>> /\ vlt.masterKey = <<>> /\ vlt.keyUsed = <<>>

\* C14: validation and format checks come before any key material: deriveKey
\* rejects an empty password before encoding, PBKDF2, WASM loading or
\* allocation, and a decryption rejects a container with a bad magic marker
\* or an unrecognized version before any key derivation or decryption step.
C14_ChecksBeforeKeyMaterial ==
    C14_DeriveKeyValidatesFirst /\ C14_ContainerCheckedFirst

\* C15: when decryptFile returns with the password and the salt of the
\* encryption, the record list it was given is the list encryptFile
\* produced: a list with whole records reordered, cut short at the end or
\* repeated is not accepted.
C15_RecordSequenceIntact ==
    (/\ pc = "dec_done"
     /\ dec.password = dec.origin.password
     /\ dec.salt = dec.origin.salt) =>
       dec.encryptedChunks = dec.origin.records

====
